---- MODULE Spec2Model ----
(***************************************************************************)
(* Account security of the task-management API: failed-login lockout,      *)
(* password history, sliding-window rate limiting and the login and        *)
(* change-password handlers built on them (app/services/security.py,       *)
(* app/services/auth.py, app/services/user.py), over a model of the Redis  *)
(* commands they issue and of the users table.                             *)
(*                                                                         *)
(* Every handler is one action: the coroutines call the synchronous Redis  *)
(* client and never yield between its commands.  SpecSteps, SpecGuess,     *)
(* SpecRateSteps and SpecHistorySteps take the lockout calls, the login,   *)
(* the rate limiter and the password history command by command, as the    *)
(* store sees them when several workers serve requests.  Time is a wall    *)
(* clock in seconds that only the Tick actions advance; a handler reads    *)
(* the clock once, so two calls that no Tick separates read the same       *)
(* timestamp.                                                              *)
(***************************************************************************)
EXTENDS Integers, Sequences, FiniteSets, TLC

VARIABLES
    now,        \* wall clock, seconds
    redis,      \* the key-value store: key -> [val, exp]; absent keys are not in its domain
    users,      \* the users table: id -> [email, password_hash, is_active, last_login_at]
    last,       \* the most recent call: its operation, inputs and outcome
    fails,      \* history: failures recorded per account since its counter last was absent
    lockout,    \* history: per account, when its latest failure was recorded and whether
                \* it has been locked since its counter was last cleared
    burst,      \* history: per rate-limit key, the calls since its window last was empty
    recorded,   \* history: per account, the hashes recorded since the list last was absent
    jwt,        \* the token a client holds: how it got it and what it carries
    procs,      \* the requests in flight that issue their store commands one by one
    hist        \* history of the requests: per account, the wrong passwords verified
                \* since its counter last was reset; per rate-limit key, the timestamps
                \* of the calls that were let through; what the reuse check of the
                \* call in last was given

vars == <<now, redis, users, last, fails, lockout, burst, recorded, jwt, procs, hist>>

---------------------------------------------------------------------------
(* Bounds of the model *)

MaxTime == 4800          \* the clock of Spec stops advancing here
MaxWindowTime == 3600    \* the clock of SpecChange and SpecRate stops advancing here
MaxFailures == 7         \* failures recorded per account between two resets
MaxCalls == 6            \* rate-limited calls per key in one burst
MaxRecorded == 6         \* hashes recorded per account
MaxDays == 15552000      \* the clock of SpecHistory stops advancing here
MaxTokenTime == 2400     \* the clock of SpecToken stops advancing here
MaxOutageTime == 3600    \* the clock of SpecOutage stops advancing here
MaxPermits == 3          \* calls let through per key that SpecRateSteps keeps on record

LockoutSteps == {1200}   \* clock increments of Spec, seconds
WindowSteps == {600}     \* clock increments of SpecChange and SpecRate, seconds
DaySteps == {7776000}    \* clock increment of SpecHistory: 90 days
TokenSteps == {600}      \* clock increments of SpecToken, seconds
OutageSteps == {1800}    \* clock increments of SpecOutage, seconds

Emails == {"e1"}
LoginEmails == Emails \cup {"nobody"}
Passwords == {"Passw0rd!", "Secur3Pw!", "weak"}
StrongPasswords == Passwords \ {"weak"}
Salts == {"s1", "s2"}
ResetTokens == {"rt1"}

---------------------------------------------------------------------------
(* Python values *)

NoneType == [t |-> "NoneType", v |-> 0]
PyStr(x) == [t |-> "str", v |-> x]
PyBytes(x) == [t |-> "bytes", v |-> x]

\* str.encode(): the bytes of a str
encode(s) == PyBytes(s.v)

\* int(x) of a str or bytes holding a decimal number
int(x) == x.v

\* `x or 0`
or0(x) == IF x.t = "NoneType" THEN PyStr(0) ELSE x

Range(s) == {s[i] : i \in 1..Len(s)}

Min(a, b) == IF a <= b THEN a ELSE b

---------------------------------------------------------------------------
(* The Redis client of get_redis() *)

decode_responses == TRUE

\* What the client hands back for a stored string
Reply(x) == IF decode_responses THEN PyStr(x) ELSE PyBytes(x)

NoExpiry == -1

Exists(r, k) == k \in DOMAIN r

Put(r, k, v, e) == [x \in DOMAIN r \cup {k} |-> IF x = k THEN [val |-> v, exp |-> e] ELSE r[x]]

delete(r, k) == [x \in DOMAIN r \ {k} |-> r[x]]

get(r, k) == IF Exists(r, k) THEN Reply(r[k].val) ELSE NoneType

\* Variant of incr for sensitivity runs: a get-then-set in application code whose read
\* was taken before the latest increment, so that it writes the value already stored
incr_get_then_set(r, k) ==
    IF Exists(r, k)
    THEN [r |-> r, ret |-> r[k].val]
    ELSE [r |-> Put(r, k, 1, NoExpiry), ret |-> 1]

\* INCR: a missing key counts from 0 and is created without expiry
incr(r, k) ==
    IF Exists(r, k)
    THEN [r |-> Put(r, k, r[k].val + 1, r[k].exp), ret |-> r[k].val + 1]
    ELSE [r |-> Put(r, k, 1, NoExpiry), ret |-> 1]

\* Variant of expire that leaves the key as it is, for sensitivity runs
expire_not_sent(r, k, seconds, t) == r

\* EXPIRE: no effect on a missing key
expire(r, k, seconds, t) ==
    IF Exists(r, k) THEN Put(r, k, r[k].val, t + seconds) ELSE r

setex(r, k, seconds, v, t) == Put(r, k, v, t + seconds)

lpush(r, k, v) ==
    IF Exists(r, k) THEN Put(r, k, <<v>> \o r[k].val, r[k].exp)
    ELSE Put(r, k, <<v>>, NoExpiry)

\* LTRIM key 0 stop
ltrim(r, k, stop) ==
    IF Exists(r, k)
    THEN Put(r, k, SubSeq(r[k].val, 1, Min(Len(r[k].val), stop + 1)), r[k].exp)
    ELSE r

\* LRANGE key 0 stop
lrange(r, k, stop) ==
    IF Exists(r, k)
    THEN [i \in 1..Min(Len(r[k].val), stop + 1) |-> Reply(r[k].val[i])]
    ELSE <<>>

\* A sorted set is a set of [member, score] with one entry per member
zadd(r, k, member, score) ==
    IF Exists(r, k)
    THEN Put(r, k, {e \in r[k].val : e.member # member}
                       \cup {[member |-> member, score |-> score]}, r[k].exp)
    ELSE Put(r, k, {[member |-> member, score |-> score]}, NoExpiry)

\* ZREMRANGEBYSCORE key lo hi, both ends inclusive; an emptied set is deleted
zremrangebyscore(r, k, lo, hi) ==
    IF ~Exists(r, k) THEN r
    ELSE LET keep == {e \in r[k].val : ~(lo <= e.score /\ e.score <= hi)}
         IN IF keep = {} THEN delete(r, k) ELSE Put(r, k, keep, r[k].exp)

\* ZCOUNT key lo +inf
zcount(r, k, lo) ==
    IF Exists(r, k) THEN Cardinality({e \in r[k].val : e.score >= lo}) ELSE 0

\* The store drops a key when its time to live has run out
Expired(r, t) == {k \in DOMAIN r : r[k].exp # NoExpiry /\ r[k].exp <= t}

Purge(r, t) == [k \in DOMAIN r \ Expired(r, t) |-> r[k]]

---------------------------------------------------------------------------
(* SecurityService: lockout tracker *)

password_attempt_expiry == 3600
max_login_attempts == 5

FailedLoginKey(user_id) == <<"failed_login", user_id>>

record_failed_login(r, t, user_id) ==
    LET key == FailedLoginKey(user_id)
        a == incr(r, key)
        r2 == IF a.ret = 1 THEN expire(a.r, key, password_attempt_expiry, t) ELSE a.r
    IN [r |-> r2, ret |-> a.ret >= max_login_attempts]

\* Variant of clear_failed_logins that deletes another key, for sensitivity runs
clear_other_key(r, user_id) == delete(r, <<"login_attempts", user_id>>)

clear_failed_logins(r, user_id) == delete(r, FailedLoginKey(user_id))

\* Variant of is_account_locked with a strict comparison, for sensitivity runs
is_account_locked_strict(r, user_id) ==
    LET attempts == get(r, FailedLoginKey(user_id))
    IN IF attempts.t = "NoneType" THEN FALSE
       ELSE int(attempts) > max_login_attempts

is_account_locked(r, user_id) ==
    LET attempts == get(r, FailedLoginKey(user_id))
    IN IF attempts.t = "NoneType" THEN FALSE
       ELSE int(attempts) >= max_login_attempts

\* The stored counter, 0 when the key is absent
Counter(r, user_id) ==
    IF Exists(r, FailedLoginKey(user_id)) THEN r[FailedLoginKey(user_id)].val ELSE 0

---------------------------------------------------------------------------
(* Passwords and bcrypt (app/core/security.py) *)

\* The character classes validate_password_strength looks for
PasswordShape ==
    [p \in Passwords |->
        IF p = "weak"
        THEN [len |-> 4, upper |-> FALSE, lower |-> TRUE, digit |-> FALSE, special |-> FALSE]
        ELSE [len |-> 9, upper |-> TRUE, lower |-> TRUE, digit |-> TRUE, special |-> TRUE]]

\* A bcrypt hash carries its salt; hashing draws a new salt on every call
Hash(p, salt) == [pw |-> p, salt |-> salt]

Hashes == {Hash(p, s) : p \in Passwords, s \in Salts}

verify_password(plain_password, hashed_password) ==
    Hash(plain_password, hashed_password.salt) = hashed_password

---------------------------------------------------------------------------
(* Outcomes of a call *)

NoToken == [sub |-> "", exp |-> 0, type |-> ""]
NoTokens == [access_token |-> NoToken, refresh_token |-> NoToken]

Return(v) ==
    [kind |-> "return", ret |-> v, exc |-> "", status |-> 0, detail |-> "", tokens |-> NoTokens]

ReturnTokens(tk) ==
    [kind |-> "return", ret |-> "LoginResponse", exc |-> "", status |-> 0, detail |-> "",
     tokens |-> tk]

HTTPException(status_code, detail) ==
    [kind |-> "raise", ret |-> "", exc |-> "HTTPException", status |-> status_code,
     detail |-> detail, tokens |-> NoTokens]

Raise(exc) ==
    [kind |-> "raise", ret |-> "", exc |-> exc, status |-> 0, detail |-> "", tokens |-> NoTokens]

NoResponse == [status |-> 0, detail |-> ""]

\* What FastAPI answers for the outcome of a route
Response(out) ==
    IF out.kind = "return" THEN [status |-> 200, detail |-> ""]
    ELSE IF out.exc = "HTTPException" THEN [status |-> out.status, detail |-> out.detail]
    ELSE [status |-> 500, detail |-> "Internal Server Error"]

---------------------------------------------------------------------------
(* Settings and tokens (app/core/config.py, app/core/security.py) *)

\* The fields class Settings declares that the token code reads or could read
SettingsFields ==
    {"SECRET_KEY", "JWT_SECRET_KEY", "JWT_ALGORITHM",
     "ACCESS_TOKEN_EXPIRE_MINUTES", "REFRESH_TOKEN_EXPIRE_DAYS"}

\* settings.<name>: pydantic raises AttributeError for a field that is not declared
HasSetting(name) == name \in SettingsFields

ACCESS_TOKEN_EXPIRE_MINUTES == 30
REFRESH_TOKEN_EXPIRE_DAYS == 7

\* expires_delta=None; `if expires_delta:` takes timedelta(0) the same way
NoDelta == 0

create_access_token(subject, expires_delta, t) ==
    IF (expires_delta = NoDelta /\ ~HasSetting("ACCESS_TOKEN_EXPIRE_MINUTES"))
       \/ ~HasSetting("SECRET_KEY") \/ ~HasSetting("ALGORITHM")
    THEN [raised |-> TRUE, token |-> NoToken]
    ELSE [raised |-> FALSE,
          token |-> [sub |-> subject,
                     exp |-> IF expires_delta # NoDelta THEN t + expires_delta
                             ELSE t + ACCESS_TOKEN_EXPIRE_MINUTES * 60,
                     type |-> ""]]

create_refresh_token(subject, t) ==
    IF ~HasSetting("REFRESH_TOKEN_EXPIRE_DAYS") \/ ~HasSetting("SECRET_KEY")
       \/ ~HasSetting("ALGORITHM")
    THEN [raised |-> TRUE, token |-> NoToken]
    ELSE [raised |-> FALSE,
          token |-> [sub |-> subject, exp |-> t + REFRESH_TOKEN_EXPIRE_DAYS * 86400,
                     type |-> "refresh"]]

\* SecurityUtils.create_token_response: the access token first, then the refresh token
create_token_response(user_id, t) ==
    LET a == create_access_token(user_id, NoDelta, t)
        f == create_refresh_token(user_id, t)
    IN IF a.raised \/ f.raised THEN Raise("AttributeError")
       ELSE ReturnTokens([access_token |-> a.token, refresh_token |-> f.token])

\* A token as it travels: well signed with SECRET_KEY ("signed"), signed with another
\* key or altered after signing ("tampered"), or not a JWT at all ("malformed")
WireToken(form, tok) == [form |-> form, sub |-> tok.sub, exp |-> tok.exp, type |-> tok.type]

Claims(w) == [sub |-> w.sub, exp |-> w.exp, type |-> w.type]

\* The result of a token function: it raised exc, returned None, returned the token or
\* payload tok, or returned the boolean b
TokenResult(kind, exc, tok, b) == [kind |-> kind, exc |-> exc, tok |-> tok, b |-> b]

\* jwt.decode: JWTError for a bad signature, a malformed token or exp < now
decodes(w, t) == w.form = "signed" /\ ~(w.exp < t)

verify_token(w, t) ==
    IF ~HasSetting("SECRET_KEY") \/ ~HasSetting("ALGORITHM")
    THEN TokenResult("raise", "AttributeError", NoToken, FALSE)
    ELSE IF decodes(w, t) THEN TokenResult("payload", "", Claims(w), FALSE)
    ELSE TokenResult("None", "", NoToken, FALSE)

\* tz: what datetime.fromtimestamp adds to a UTC timestamp, the zone of the host
is_token_expired(w, t, tz) ==
    IF ~HasSetting("SECRET_KEY") \/ ~HasSetting("ALGORITHM")
    THEN TokenResult("raise", "AttributeError", NoToken, FALSE)
    ELSE IF decodes(w, t)
         THEN LET expiration == w.exp + tz
              IN TokenResult("bool", "", NoToken, t >= expiration)
    ELSE TokenResult("bool", "", NoToken, TRUE)

refresh_access_token(w, t) ==
    LET payload == verify_token(w, t)
    IN IF payload.kind = "raise" THEN payload
       ELSE IF payload.kind = "None" \/ payload.tok.type # "refresh"
       THEN TokenResult("None", "", NoToken, FALSE)
       ELSE IF payload.tok.sub = "" THEN TokenResult("None", "", NoToken, FALSE)
       ELSE LET a == create_access_token(payload.tok.sub, NoDelta, t)
            IN IF a.raised THEN TokenResult("raise", "AttributeError", NoToken, FALSE)
               ELSE TokenResult("token", "", a.token, FALSE)

---------------------------------------------------------------------------
(* UserRepository *)

UserIds == {"u1"}

\* The id the database gives the account of an email
NewId(email) == "u1"

NoLogin == -1

get_by_email(us, email) == {id \in DOMAIN us : us[id].email = email}

\* create(): hashes the password once; is_active takes the column default
repository_create(us, email, password, salt) ==
    [id \in DOMAIN us \cup {NewId(email)} |->
        IF id = NewId(email)
        THEN [email |-> email, password_hash |-> Hash(password, salt),
              is_active |-> TRUE, last_login_at |-> NoLogin]
        ELSE us[id]]

\* update(self, *, id, schema, ...): id and schema are keyword-only, so a call that
\* passes them by position raises TypeError before the body runs
update_binds(positional) == positional = 0

update_last_login(us, user_id, t) ==
    IF update_binds(0) /\ user_id \in DOMAIN us
    THEN [us EXCEPT ![user_id].last_login_at = t]
    ELSE us

---------------------------------------------------------------------------
(* SecurityService: password history and rate limiter *)

history_depth == 4                      \* lrange / ltrim stop index: entries 0..4
history_expiry == 15552000              \* 180 * 24 * 3600

PasswordHistoryKey(user_id) == <<"password_history", user_id>>

\* Variant of check_password_history with the membership test inverted, for sensitivity runs
check_password_history_inverted(r, user_id, new_password_hash) ==
    LET password_history == lrange(r, PasswordHistoryKey(user_id), history_depth)
    IN encode(PyStr(new_password_hash)) \in Range(password_history)

\* True: the password may be used
check_password_history(r, user_id, new_password_hash) ==
    LET password_history == lrange(r, PasswordHistoryKey(user_id), history_depth)
    IN encode(PyStr(new_password_hash)) \notin Range(password_history)

add_to_password_history(r, t, user_id, password_hash) ==
    LET key == PasswordHistoryKey(user_id)
        r1 == lpush(r, key, password_hash)
        r2 == ltrim(r1, key, history_depth)
    IN expire(r2, key, history_expiry, t)

\* str(now) names the entry, now scores it
enforce_rate_limit(r, t, key, max_requests, window_seconds) ==
    LET window_start == t - window_seconds
        r1 == zadd(r, key, t, t)
        r2 == zremrangebyscore(r1, key, 0, window_start)
        request_count == zcount(r2, key, window_start)
        r3 == expire(r2, key, window_seconds, t)
    IN [r |-> r3, ret |-> request_count <= max_requests]

validate_password_strength(password) ==
    LET s == PasswordShape[password]
    IN IF s.len < 8
       THEN HTTPException(400, "Password must be at least 8 characters long")
       ELSE IF ~s.upper
       THEN HTTPException(400, "Password must contain at least one uppercase letter")
       ELSE IF ~s.lower
       THEN HTTPException(400, "Password must contain at least one lowercase letter")
       ELSE IF ~s.digit
       THEN HTTPException(400, "Password must contain at least one number")
       ELSE IF ~s.special
       THEN HTTPException(400, "Password must contain at least one special character")
       ELSE Return("None")

---------------------------------------------------------------------------
(* AuthService *)

\* Variant of _is_account_locked with a strict comparison, for sensitivity runs
_is_account_locked_strict(r, user_id) ==
    LET failed_attempts == get(r, FailedLoginKey(user_id))
    IN int(or0(failed_attempts)) > 5

_is_account_locked(r, user_id) ==
    LET failed_attempts == get(r, FailedLoginKey(user_id))
    IN int(or0(failed_attempts)) >= 5

_record_failed_login(r, t, user_id) ==
    LET key == FailedLoginKey(user_id)
    IN expire(incr(r, key).r, key, 3600, t)

_clear_failed_logins(r, user_id) == delete(r, FailedLoginKey(user_id))

RefreshTokenKey(user_id) == <<"refresh_token", user_id>>

refresh_token_ttl == 604800             \* 86400 * 7

\* The body of authenticate_user's try block: the store and table it leaves, how it ends,
\* and (ev) whether it recorded a failure or cleared the counter
\* The try body from the password check on, for the account the email belongs to
authenticate_user_checked(r, us, t, id, password) ==
    LET user == us[id]
    IN IF ~verify_password(password, user.password_hash)
       THEN [r |-> _record_failed_login(r, t, id), users |-> us, ev |-> "record",
             out |-> Return("None")]
       ELSE IF ~user.is_active
       THEN [r |-> r, users |-> us, ev |-> "none", out |-> HTTPException(400, "Inactive user")]
       ELSE
       LET r1 == _clear_failed_logins(r, id)
           us1 == update_last_login(us, id, t)
           tokens == create_token_response(id, t)
       IN IF tokens.kind = "raise"
          THEN [r |-> r1, users |-> us1, ev |-> "clear", out |-> tokens]
          ELSE [r |-> setex(r1, RefreshTokenKey(id), refresh_token_ttl,
                            tokens.tokens.refresh_token, t),
                users |-> us1, ev |-> "clear", out |-> tokens]

authenticate_user_body(r, us, t, email, password) ==
    LET found == get_by_email(us, email)
    IN IF found = {} THEN [r |-> r, users |-> us, ev |-> "none", out |-> Return("None")]
       ELSE
       LET id == CHOOSE x \in found : TRUE
       IN IF _is_account_locked(r, id)
          THEN [r |-> r, users |-> us, ev |-> "none",
                out |-> HTTPException(403, "Account is locked due to too many failed attempts")]
          ELSE authenticate_user_checked(r, us, t, id, password)

\* except Exception: whatever the body raised, HTTPException included, leaves as a 500
except_Exception(out) ==
    IF out.kind = "raise" THEN HTTPException(500, "Authentication error") ELSE out

authenticate_user(r, us, t, email, password) ==
    LET b == authenticate_user_body(r, us, t, email, password)
    IN [r |-> b.r, users |-> b.users, ev |-> b.ev, out |-> except_Exception(b.out)]

\* Variant of login that answers 404 for an email no account has, for sensitivity runs
login_user_not_found(r, us, t, email, password) ==
    LET a == authenticate_user(r, us, t, email, password)
    IN [r |-> a.r, users |-> a.users, ev |-> a.ev,
        out |-> IF get_by_email(us, email) = {} THEN HTTPException(404, "User not found")
                ELSE IF a.out.kind = "return" /\ a.out.ret = "None"
                THEN HTTPException(401, "Incorrect email or password")
                ELSE a.out]

\* The login route: no tokens is answered 401
login(r, us, t, email, password) ==
    LET a == authenticate_user(r, us, t, email, password)
    IN [r |-> a.r, users |-> a.users, ev |-> a.ev,
        out |-> IF a.out.kind = "return" /\ a.out.ret = "None"
                THEN HTTPException(401, "Incorrect email or password")
                ELSE a.out]

\* The store does not answer: the client raises redis.ConnectionError
StoreError == Raise("ConnectionError")

\* Variant of the lock check below that swallows the store's error and reports the
\* account as not locked, for sensitivity runs
_is_account_locked_fails_open(r, user_id) == [raised |-> FALSE, ret |-> FALSE]

\* _is_account_locked while the store does not answer: redis.get raises and the
\* function has no handler
_is_account_locked_store_down(r, user_id) == [raised |-> TRUE, ret |-> FALSE]

\* authenticate_user when the store does not answer the lockout check
authenticate_user_store_down(r, us, t, email, password) ==
    LET found == get_by_email(us, email)
    IN IF found = {} THEN [r |-> r, users |-> us, ev |-> "none", out |-> Return("None")]
       ELSE
       LET id == CHOOSE x \in found : TRUE
           locked == _is_account_locked_store_down(r, id)
           b == IF locked.raised
                THEN [r |-> r, users |-> us, ev |-> "none", out |-> StoreError]
                ELSE IF locked.ret
                THEN [r |-> r, users |-> us, ev |-> "none",
                      out |-> HTTPException(403, "Account is locked due to too many failed attempts")]
                ELSE authenticate_user_checked(r, us, t, id, password)
       IN [r |-> b.r, users |-> b.users, ev |-> b.ev, out |-> except_Exception(b.out)]

\* The login route over it
login_store_down(r, us, t, email, password) ==
    LET a == authenticate_user_store_down(r, us, t, email, password)
    IN [r |-> a.r, users |-> a.users, ev |-> a.ev,
        out |-> IF a.out.kind = "return" /\ a.out.ret = "None"
                THEN HTTPException(401, "Incorrect email or password")
                ELSE a.out]

---------------------------------------------------------------------------
(* UserService *)

PasswordChangeKey(user_id) == <<"password_change", user_id>>

password_change_limit == 5
password_change_window == 3600

\* create_user: the store and table it leaves, how it ends, and (hist) whether it
\* recorded the new hash in the password history
create_user(r, us, t, email, password, confirm_password, salt) ==
    IF password # confirm_password
    THEN [r |-> r, users |-> us, hist |-> FALSE, out |-> HTTPException(400, "Passwords do not match")]
    ELSE IF validate_password_strength(password).kind = "raise"
    THEN [r |-> r, users |-> us, hist |-> FALSE, out |-> validate_password_strength(password)]
    ELSE IF get_by_email(us, email) # {}
    THEN [r |-> r, users |-> us, hist |-> FALSE, out |-> HTTPException(400, "Email already registered")]
    ELSE LET us1 == repository_create(us, email, password, salt)
             id == NewId(email)
         IN [r |-> add_to_password_history(r, t, id, us1[id].password_hash),
             users |-> us1, hist |-> TRUE, out |-> Return("UserResponse")]

\* repository.update(user_id, UserUpdate(password=...)): two positional arguments.
\* When the call binds, update() hashes the new password itself, with a salt of its own.
repository_update_password(us, positional, user_id, password, salt) ==
    IF ~update_binds(positional) THEN [raised |-> TRUE, users |-> us]
    ELSE [raised |-> FALSE,
          users |-> IF user_id \in DOMAIN us
                    THEN [us EXCEPT ![user_id].password_hash = Hash(password, salt)]
                    ELSE us]

\* What the reuse check of change_password was given: the history it read
NotSeen == [reached |-> FALSE, history |-> <<>>]

Seen(r, user_id) ==
    [reached |-> TRUE, history |-> lrange(r, PasswordHistoryKey(user_id), history_depth)]

\* Variant of change_password_checked that records the new hash before it checks the
\* history, for sensitivity runs
change_password_records_first(r0, us, t, user_id, new_password, salt, salt2) ==
    LET new_password_hash == Hash(new_password, salt)
        r1 == add_to_password_history(r0, t, user_id, new_password_hash)
    IN IF ~check_password_history(r1, user_id, new_password_hash)
       THEN [r |-> r1, users |-> us, ev |-> "none", hist |-> TRUE,
             seen |-> Seen(r1, user_id),
             out |-> HTTPException(400, "Password has been used recently")]
       ELSE
       LET u == repository_update_password(us, 2, user_id, new_password, salt2)
       IN IF u.raised
          THEN [r |-> r1, users |-> us, ev |-> "none", hist |-> TRUE,
                seen |-> Seen(r1, user_id), out |-> Raise("TypeError")]
          ELSE [r |-> clear_failed_logins(r1, user_id),
                users |-> u.users, ev |-> "clear", hist |-> TRUE,
                seen |-> Seen(r1, user_id), out |-> Return("None")]

\* change_password from the history check on (lines 126-147): hash the new password,
\* check it against the history, update the password, record the hash, clear the counter
change_password_checked(r0, us, t, user_id, new_password, salt, salt2) ==
    LET new_password_hash == Hash(new_password, salt)
    IN IF ~check_password_history(r0, user_id, new_password_hash)
       THEN [r |-> r0, users |-> us, ev |-> "none", hist |-> FALSE,
             seen |-> Seen(r0, user_id),
             out |-> HTTPException(400, "Password has been used recently")]
       ELSE
       LET u == repository_update_password(us, 2, user_id, new_password, salt2)
       IN IF u.raised
          THEN [r |-> r0, users |-> us, ev |-> "none", hist |-> FALSE,
                seen |-> Seen(r0, user_id), out |-> Raise("TypeError")]
          ELSE [r |-> clear_failed_logins(
                          add_to_password_history(r0, t, user_id, new_password_hash),
                          user_id),
                users |-> u.users, ev |-> "clear", hist |-> TRUE,
                seen |-> Seen(r0, user_id), out |-> Return("None")]

\* change_password: the store and table it leaves, how it ends, (ev) whether it recorded
\* a failure or cleared the counter, (hist) whether it recorded the new hash, (seen) what
\* its reuse check was given.
\* salt is drawn by get_password_hash in change_password, salt2 by the one in update().
change_password(r, us, t, user_id, current_password, new_password, confirm_password, salt, salt2) ==
    LET lim == enforce_rate_limit(r, t, PasswordChangeKey(user_id),
                                  password_change_limit, password_change_window)
        r0 == lim.r
    IN IF ~lim.ret
       THEN [r |-> r0, users |-> us, ev |-> "none", hist |-> FALSE, seen |-> NotSeen,
             out |-> HTTPException(429, "Too many password change attempts. Please try again later.")]
       ELSE IF user_id \notin DOMAIN us
       THEN [r |-> r0, users |-> us, ev |-> "none", hist |-> FALSE, seen |-> NotSeen,
             out |-> HTTPException(404, "User not found")]
       ELSE IF ~verify_password(current_password, us[user_id].password_hash)
       THEN [r |-> record_failed_login(r0, t, user_id).r, users |-> us, ev |-> "record",
             hist |-> FALSE, seen |-> NotSeen, out |-> HTTPException(400, "Incorrect password")]
       ELSE IF is_account_locked(r0, user_id)
       THEN [r |-> r0, users |-> us, ev |-> "none", hist |-> FALSE, seen |-> NotSeen,
             out |-> HTTPException(403, "Account is locked due to too many failed attempts")]
       ELSE IF new_password # confirm_password
       THEN [r |-> r0, users |-> us, ev |-> "none", hist |-> FALSE, seen |-> NotSeen,
             out |-> HTTPException(400, "New passwords do not match")]
       ELSE IF validate_password_strength(new_password).kind = "raise"
       THEN [r |-> r0, users |-> us, ev |-> "none", hist |-> FALSE, seen |-> NotSeen,
             out |-> validate_password_strength(new_password)]
       ELSE change_password_checked(r0, us, t, user_id, new_password, salt, salt2)

\* change_password when the store does not answer at point: the rate-limit check
\* ("rate_limit") or the lockout check ("lock_check"); neither call is in a try block
change_password_store_down(r, us, t, user_id, current_password, point) ==
    IF point = "rate_limit"
    THEN [r |-> r, users |-> us, ev |-> "none", hist |-> FALSE, out |-> StoreError]
    ELSE
    LET lim == enforce_rate_limit(r, t, PasswordChangeKey(user_id),
                                  password_change_limit, password_change_window)
        r0 == lim.r
    IN IF ~lim.ret
       THEN [r |-> r0, users |-> us, ev |-> "none", hist |-> FALSE,
             out |-> HTTPException(429, "Too many password change attempts. Please try again later.")]
       ELSE IF user_id \notin DOMAIN us
       THEN [r |-> r0, users |-> us, ev |-> "none", hist |-> FALSE,
             out |-> HTTPException(404, "User not found")]
       ELSE IF ~verify_password(current_password, us[user_id].password_hash)
       THEN [r |-> record_failed_login(r0, t, user_id).r, users |-> us, ev |-> "record",
             hist |-> FALSE, out |-> HTTPException(400, "Incorrect password")]
       ELSE [r |-> r0, users |-> us, ev |-> "none", hist |-> FALSE, out |-> StoreError]

PasswordResetKey(email) == <<"password_reset", email>>

PasswordResetTokenKey(user_id) == <<"password_reset_token", user_id>>

password_reset_limit == 3
password_reset_window == 3600
password_reset_token_ttl == 3600

\* initiate_password_reset; up: whether the store answers the rate-limit check
initiate_password_reset(r, us, t, email, reset_token, up) ==
    LET found == get_by_email(us, email)
    IN IF found = {} THEN [r |-> r, out |-> Return("None")]
       ELSE IF ~up THEN [r |-> r, out |-> StoreError]
       ELSE
       LET id == CHOOSE x \in found : TRUE
           lim == enforce_rate_limit(r, t, PasswordResetKey(email),
                                     password_reset_limit, password_reset_window)
       IN IF ~lim.ret
          THEN [r |-> lim.r,
                out |-> HTTPException(429, "Too many password reset requests. Please try again later.")]
          ELSE [r |-> setex(lim.r, PasswordResetTokenKey(id), password_reset_token_ttl,
                            reset_token, t),
                out |-> Return("None")]

---------------------------------------------------------------------------
(* State *)

EmptyStore == [k \in {} |-> 0]

NoHash == Hash("", "")

\* The record of a call
Called(op, who, pw, new, hash, before, out) ==
    [op |-> op, who |-> who, pw |-> pw, new |-> new, hash |-> hash,
     before |-> before, out |-> out]

\* Callers of the rate limiter other than the services: key -> the limit and window it passes
RateParams ==
    [k \in {"k1", "k2"} |->
        IF k = "k1" THEN [max_requests |-> 1, window_seconds |-> 1200]
        ELSE [max_requests |-> 3, window_seconds |-> 2400]]

CallerKey(k) == <<"caller", k>>

RateKeys == {PasswordChangeKey(id) : id \in UserIds} \cup {CallerKey(k) : k \in DOMAIN RateParams}

NoBurst == [first |-> 0, n |-> 0, lastt |-> 0]

\* The burst of calls on a key after one more call at t: a call that finds no call in
\* the last window_seconds starts a new burst
NextBurst(b, t, window_seconds) ==
    IF b.n = 0 \/ t - b.lastt >= window_seconds
    THEN [first |-> t, n |-> 1, lastt |-> t]
    ELSE [first |-> b.first, n |-> b.n + 1, lastt |-> t]

\* The failures on record after a call that recorded one, cleared them, or did neither
NextFails(n, ev) ==
    IF ev = "record" THEN n + 1 ELSE IF ev = "clear" THEN 0 ELSE n

NoLockout == [at |-> -1, locked |-> FALSE]

\* The lockout history after a call that left nf failures on record
NextLockout(h, ev, nf, t) ==
    IF ev = "record" THEN [at |-> t, locked |-> h.locked \/ nf >= 5]
    ELSE IF ev = "clear" THEN NoLockout
    ELSE h

NoJwt == [tok |-> WireToken("none", NoToken), how |-> "none", s |-> "", ttl |-> 0, at |-> 0]

Procs == {"p1", "p2"}

NoProcs == [p \in Procs |-> [pc |-> "idle", op |-> "", id |-> "", ret |-> 0]]

NoHist ==
    [verified |-> [id \in UserIds |-> 0], permits |-> [k \in RateKeys |-> <<>>],
     seen |-> NotSeen]

Init ==
    /\ now = 0
    /\ redis = EmptyStore
    /\ users = EmptyStore
    /\ last = Called("init", "", "", "", NoHash, 0, Return("None"))
    /\ fails = [id \in UserIds |-> 0]
    /\ lockout = [id \in UserIds |-> NoLockout]
    /\ burst = [k \in RateKeys |-> NoBurst]
    /\ recorded = [id \in UserIds |-> <<>>]
    /\ jwt = NoJwt
    /\ procs = NoProcs
    /\ hist = NoHist

---------------------------------------------------------------------------
(* Actions *)

\* The clock advances and the store drops the keys whose time has run out
Tick(steps, horizon) ==
    \E d \in steps :
        /\ now + d <= horizon
        /\ now' = now + d
        /\ redis' = Purge(redis, now')
        /\ fails' = [id \in UserIds |->
                        IF FailedLoginKey(id) \in Expired(redis, now') THEN 0 ELSE fails[id]]
        /\ recorded' = [id \in UserIds |->
                           IF PasswordHistoryKey(id) \in Expired(redis, now') THEN <<>>
                           ELSE recorded[id]]
        /\ hist' = [hist EXCEPT !.verified =
                        [id \in UserIds |->
                            IF FailedLoginKey(id) \in Expired(redis, now') THEN 0 ELSE @[id]],
                                !.seen = NotSeen]
        /\ last' = Called("tick", "", "", "", NoHash, 0, Return("None"))
        /\ UNCHANGED <<jwt, procs, users, lockout, burst>>

TickLockout == Tick(LockoutSteps, MaxTime)

TickWindow == Tick(WindowSteps, MaxWindowTime)

CreateUser ==
    \E email \in Emails, password \in Passwords, confirm \in Passwords, salt \in Salts :
        LET c == create_user(redis, users, now, email, password, confirm, salt)
            id == NewId(email)
        IN /\ redis' = c.r
           /\ users' = c.users
           /\ recorded' = IF c.hist
                          THEN [recorded EXCEPT ![id] = Append(@, c.users[id].password_hash)]
                          ELSE recorded
           /\ last' = Called("create_user", email, password, confirm, NoHash, 0, c.out)
           /\ UNCHANGED <<hist, jwt, procs, now, fails, lockout, burst>>

\* POST /users/login
Login ==
    \E email \in LoginEmails, password \in Passwords :
        LET l == login(redis, users, now, email, password)
            found == get_by_email(users, email)
            id == IF found = {} THEN NewId(email) ELSE CHOOSE x \in found : TRUE
        IN /\ NextFails(fails[id], l.ev) <= MaxFailures
           /\ redis' = l.r
           /\ users' = l.users
           /\ fails' = [fails EXCEPT ![id] = NextFails(@, l.ev)]
           /\ lockout' = [lockout EXCEPT ![id] = NextLockout(@, l.ev, fails'[id], now)]
           /\ last' = Called("login", email, password, "", NoHash, Counter(redis, id), l.out)
           /\ UNCHANGED <<hist, jwt, procs, now, burst, recorded>>

ChangePassword ==
    \E id \in UserIds, current \in StrongPasswords, new \in Passwords, confirm \in Passwords,
       salt \in Salts, salt2 \in (IF update_binds(2) THEN Salts ELSE {"s1"}) :
        LET c == change_password(redis, users, now, id, current, new, confirm, salt, salt2)
            b == NextBurst(burst[PasswordChangeKey(id)], now, password_change_window)
        IN /\ NextFails(fails[id], c.ev) <= MaxFailures
           /\ b.n <= MaxCalls
           /\ redis' = c.r
           /\ users' = c.users
           /\ fails' = [fails EXCEPT ![id] = NextFails(@, c.ev)]
           /\ lockout' = [lockout EXCEPT ![id] = NextLockout(@, c.ev, fails'[id], now)]
           /\ burst' = [burst EXCEPT ![PasswordChangeKey(id)] = b]
           /\ recorded' = IF c.hist
                          THEN [recorded EXCEPT ![id] = Append(@, Hash(new, salt))]
                          ELSE recorded
           /\ hist' = [hist EXCEPT !.seen = c.seen]
           /\ last' = Called("change_password", id, current, new, NoHash, 0, c.out)
           /\ UNCHANGED <<jwt, procs, now>>

\* SecurityService.record_failed_login, called on its own
RecordFailedLogin ==
    \E id \in UserIds :
        LET c == record_failed_login(redis, now, id)
        IN /\ fails[id] < MaxFailures
           /\ redis' = c.r
           /\ fails' = [fails EXCEPT ![id] = @ + 1]
           /\ lockout' = [lockout EXCEPT ![id] = NextLockout(@, "record", fails'[id], now)]
           /\ last' = Called("record_failed_login", id, "", "", NoHash, Counter(redis, id),
                             Return(IF c.ret THEN "True" ELSE "False"))
           /\ UNCHANGED <<hist, jwt, procs, now, users, burst, recorded>>

\* SecurityService.clear_failed_logins, called on its own
ClearFailedLogins ==
    \E id \in UserIds :
        /\ redis' = clear_failed_logins(redis, id)
        /\ fails' = [fails EXCEPT ![id] = 0]
        /\ lockout' = [lockout EXCEPT ![id] = NoLockout]
        /\ last' = Called("clear_failed_logins", id, "", "", NoHash, Counter(redis, id),
                          Return("None"))
        /\ UNCHANGED <<hist, jwt, procs, now, users, burst, recorded>>

\* Lockout and login
Next ==
    \/ TickLockout
    \/ CreateUser
    \/ Login
    \/ RecordFailedLogin
    \/ ClearFailedLogins

Spec == Init /\ [][Next]_vars

\* Changing the password of an account that create_user has just created
InitChange ==
    LET c == create_user(EmptyStore, EmptyStore, 0, "e1", "Passw0rd!", "Passw0rd!", "s1")
    IN /\ now = 0
       /\ redis = c.r
       /\ users = c.users
       /\ last = Called("create_user", "e1", "Passw0rd!", "Passw0rd!", NoHash, 0, c.out)
       /\ fails = [id \in UserIds |-> 0]
       /\ lockout = [id \in UserIds |-> NoLockout]
       /\ burst = [k \in RateKeys |-> NoBurst]
       /\ recorded = [id \in UserIds |->
                         IF id = NewId("e1") THEN <<c.users[id].password_hash>> ELSE <<>>]
       /\ jwt = NoJwt
       /\ procs = NoProcs
       /\ hist = NoHist

NextChange ==
    \/ TickWindow
    \/ ChangePassword

SpecChange == InitChange /\ [][NextChange]_vars

---------------------------------------------------------------------------
(* The rate limiter and the password history, called on their own *)

EnforceRateLimit ==
    \E k \in DOMAIN RateParams :
        LET key == CallerKey(k)
            p == RateParams[k]
            c == enforce_rate_limit(redis, now, key, p.max_requests, p.window_seconds)
            b == NextBurst(burst[key], now, p.window_seconds)
        IN /\ b.n <= MaxCalls
           /\ redis' = c.r
           /\ burst' = [burst EXCEPT ![key] = b]
           /\ last' = Called("enforce_rate_limit", k, "", "", NoHash, 0,
                             Return(IF c.ret THEN "True" ELSE "False"))
           /\ UNCHANGED <<hist, jwt, procs, now, users, fails, lockout, recorded>>

NextRate ==
    \/ TickWindow
    \/ EnforceRateLimit

SpecRate == Init /\ [][NextRate]_vars

\* The hashes callers pass, in the order in which a caller first uses them: the
\* services only compare hashes, so which hash comes first makes no difference
HashOrder ==
    <<Hash("Passw0rd!", "s1"), Hash("Secur3Pw!", "s1"), Hash("weak", "s1"),
      Hash("Passw0rd!", "s2"), Hash("Secur3Pw!", "s2"), Hash("weak", "s2")>>

Usable(rec) ==
    {HashOrder[i] : i \in {j \in 1..Len(HashOrder) :
                              \A l \in 1..(j - 1) : HashOrder[l] \in Range(rec)}}

AddToPasswordHistory ==
    \E id \in UserIds : \E h \in Usable(recorded[id]) :
        /\ Len(recorded[id]) < MaxRecorded
        /\ redis' = add_to_password_history(redis, now, id, h)
        /\ recorded' = [recorded EXCEPT ![id] = Append(@, h)]
        /\ last' = Called("add_to_password_history", id, "", "", h, 0, Return("None"))
        /\ UNCHANGED <<hist, jwt, procs, now, users, fails, lockout, burst>>

CheckPasswordHistory ==
    \E id \in UserIds : \E h \in Usable(recorded[id]) :
        /\ last' = Called("check_password_history", id, "", "", h, 0,
                          Return(IF check_password_history(redis, id, h)
                                 THEN "True" ELSE "False"))
        /\ UNCHANGED <<hist, jwt, procs, now, redis, users, fails, lockout, burst, recorded>>

TickDays == Tick(DaySteps, MaxDays)

NextHistory ==
    \/ TickDays
    \/ AddToPasswordHistory
    \/ CheckPasswordHistory

SpecHistory == Init /\ [][NextHistory]_vars

---------------------------------------------------------------------------
(* Claims about the lockout and the login, under Spec *)

\* The entry of a key, absent or its value and expiry
Entry(r, k) == IF Exists(r, k) THEN <<TRUE, r[k].val, r[k].exp>> ELSE <<FALSE, 0, 0>>

\* The step is a login for account id with its correct password
CorrectLogin(id) ==
    /\ last'.op = "login"
    /\ last'.who = users[id].email
    /\ verify_password(last'.pw, users[id].password_hash)

\* C1: with up to 4 failures recorded since the counter was last absent, through
\* either service, neither is_account_locked nor _is_account_locked reports the
\* account locked; from the 5th recorded failure on, both do.
C1_LockedFromFifthFailure ==
    \A id \in UserIds :
        /\ fails[id] <= 4 => ~is_account_locked(redis, id) /\ ~_is_account_locked(redis, id)
        /\ fails[id] >= 5 => is_account_locked(redis, id) /\ _is_account_locked(redis, id)

\* The 5th failure in a row has just been recorded by a login
C1_Witness ==
    \E id \in UserIds : last.op = "login" /\ last.before = 4 /\ fails[id] = 5

\* C2: a login with the correct password for an account whose counter is 5 or more
\* returns no tokens and leaves the refresh-token entry, the last-login time and the
\* failed-login counter as they were.
C2_LockedLoginDenied ==
    [][\A id \in DOMAIN users :
          (CorrectLogin(id) /\ Counter(redis, id) >= 5)
          => /\ last'.out.ret # "LoginResponse"
             /\ last'.out.tokens = NoTokens
             /\ Entry(redis', RefreshTokenKey(id)) = Entry(redis, RefreshTokenKey(id))
             /\ users'[id].last_login_at = users[id].last_login_at
             /\ Entry(redis', FailedLoginKey(id)) = Entry(redis, FailedLoginKey(id))]_vars

\* A login with the correct password has just been made on a locked account
C2_Witness ==
    \E id \in DOMAIN users :
        /\ last.op = "login" /\ last.who = users[id].email /\ last.before >= 5
        /\ verify_password(last.pw, users[id].password_hash)
        /\ Counter(redis, id) >= 5

\* C3: once an account has been locked and 3600 seconds have passed since its latest
\* recorded failure, with no clear in between, the account is not locked, and a login
\* with the correct password for the active account returns a token pair.
C3_UsableAfterWindow ==
    [][\A id \in DOMAIN users :
          /\ (lockout'[id].locked /\ now' >= lockout'[id].at + 3600)
             => ~is_account_locked(redis', id) /\ ~_is_account_locked(redis', id)
          /\ (lockout[id].locked /\ now >= lockout[id].at + 3600
                /\ CorrectLogin(id) /\ users[id].is_active)
             => /\ last'.out.ret = "LoginResponse"
                /\ last'.out.tokens.access_token.sub = id
                /\ last'.out.tokens.refresh_token.sub = id]_vars

\* C4: a login for an account whose counter is 5 or more is answered 403 with the
\* account-locked message, not 401 and not the 500 of an internal error.
C4_LockedIsExplicit ==
    \A id \in DOMAIN users :
        (last.op = "login" /\ last.who = users[id].email /\ last.before >= 5)
        => /\ last.out.status = 403
           /\ last.out.detail = "Account is locked due to too many failed attempts"

\* C5: after clear_failed_logins the account is not locked, whatever the counter was;
\* a login that gets past the password check of an active account leaves no counter
\* either; and the first failure recorded after that takes the counter to 1.
C5_ClearResets ==
    [][\A id \in UserIds :
          /\ (last'.op = "clear_failed_logins" /\ last'.who = id)
             => /\ ~is_account_locked(redis', id)
                /\ ~_is_account_locked(redis', id)
                /\ ~Exists(redis', FailedLoginKey(id))
          /\ (id \in DOMAIN users /\ CorrectLogin(id) /\ users[id].is_active
                /\ Counter(redis, id) < 5)
             => ~Exists(redis', FailedLoginKey(id))
          /\ (fails[id] = 0 /\ fails'[id] = 1) => Counter(redis', id) = 1]_vars

\* clear_failed_logins has just been called on an account with 5 or more failures
C5_Witness ==
    \E id \in UserIds :
        /\ last.op = "clear_failed_logins" /\ last.who = id /\ last.before >= 5
        /\ ~Exists(redis, FailedLoginKey(id))

---------------------------------------------------------------------------
(* Claims about the rate limiter, under SpecRate and SpecChange *)

\* C6: of the calls a caller makes on one key with limit m inside one window of w
\* seconds, the first m return True and the next one returns False; a call made w
\* seconds or more after the previous one starts a new window and returns True.
C6_LimitWithinWindow ==
    \A k \in DOMAIN RateParams :
        LET p == RateParams[k]
            b == burst[CallerKey(k)]
        IN (last.op = "enforce_rate_limit" /\ last.who = k
              /\ b.lastt - b.first < p.window_seconds)
           => /\ b.n <= p.max_requests => last.out.ret = "True"
              /\ b.n = p.max_requests + 1 => last.out.ret = "False"

\* C7: a change_password call that comes after 5 calls for the same account inside one
\* window of 3600 seconds is answered 429 and leaves the stored password, the password
\* history and the failed-login counter as they were.
C7_SixthChangeRejected ==
    [][\A id \in UserIds :
          LET b == burst'[PasswordChangeKey(id)]
          IN (last'.op = "change_password" /\ last'.who = id
                /\ b.n > password_change_limit
                /\ b.lastt - b.first < password_change_window)
             => /\ last'.out.status = 429
                /\ last'.out.detail = "Too many password change attempts. Please try again later."
                /\ users' = users
                /\ Entry(redis', PasswordHistoryKey(id)) = Entry(redis, PasswordHistoryKey(id))
                /\ Entry(redis', FailedLoginKey(id)) = Entry(redis, FailedLoginKey(id))]_vars

---------------------------------------------------------------------------
(* Claims about the password history, under SpecHistory and SpecChange *)

\* The latest n entries of a sequence
Latest(seq, n) == SubSeq(seq, Len(seq) - Min(n, Len(seq)) + 1, Len(seq))

\* C8: check_password_history answers False for a hash that is among the 5 hashes most
\* recently added for the account, while the history has not run out.
C8_RecordedIsRefused ==
    \A id \in UserIds :
        (last.op = "check_password_history" /\ last.who = id
           /\ last.hash \in Range(Latest(recorded[id], 5)))
        => last.out.ret = "False"

\* C9: check_password_history answers True for every hash that is not among the 5
\* hashes most recently added for the account, the first of 6 distinct hashes included.
C9_OnlyLatestFiveRefused ==
    \A id \in UserIds :
        (last.op = "check_password_history" /\ last.who = id
           /\ last.hash \notin Range(Latest(recorded[id], 5)))
        => last.out.ret = "True"

\* The first of 6 distinct hashes added for an account has just been checked
C9_Witness ==
    \E id \in UserIds :
        /\ Len(recorded[id]) = 6
        /\ Cardinality(Range(recorded[id])) = 6
        /\ last.op = "check_password_history" /\ last.who = id
        /\ last.hash = recorded[id][1]
        /\ last.out.ret = "True"

\* C10: a change_password call that passes the rate limit, on an account that is not
\* locked, with the correct current password, and whose new password is the current one
\* or another of the account's latest 5, is answered 400 'Password has been used
\* recently' and leaves the stored password and the password history as they were.
C10_ReusedPasswordRefused ==
    [][\A id \in DOMAIN users :
          (/\ last'.op = "change_password" /\ last'.who = id
           /\ enforce_rate_limit(redis, now, PasswordChangeKey(id), password_change_limit,
                                 password_change_window).ret
           /\ ~is_account_locked(redis, id)
           /\ verify_password(last'.pw, users[id].password_hash)
           /\ \E h \in Range(Latest(recorded[id], 5)) \cup {users[id].password_hash} :
                 verify_password(last'.new, h))
          => /\ last'.out.status = 400
             /\ last'.out.detail = "Password has been used recently"
             /\ users' = users
             /\ Entry(redis', PasswordHistoryKey(id)) = Entry(redis, PasswordHistoryKey(id))]_vars

---------------------------------------------------------------------------
(* The token functions of app/core/security.py, called on their own *)

Subjects == {"u1", "u2"}

\* expires_delta in seconds; NoDelta stands for the default
Lifetimes == {NoDelta, 600, 1200}

\* Offsets of the host's zone from UTC, seconds
TzOffsets == {-3600, 0, 3600}

\* Tokens a client can present that this process did not issue
PresentedTokens ==
    {WireToken(form, [sub |-> sub, exp |-> exp, type |-> type]) :
        form \in {"signed", "tampered", "malformed"}, sub \in {"u1", ""},
        exp \in {600, 1800}, type \in {"", "refresh"}}

\* What a caller of a token function gets
Outcome(res) ==
    IF res.kind = "raise" THEN Raise(res.exc)
    ELSE IF res.kind = "None" THEN Return("None")
    ELSE IF res.kind = "bool" THEN Return(IF res.b THEN "True" ELSE "False")
    ELSE [Return(res.kind) EXCEPT !.tokens.access_token = res.tok]

Holding(tok, how, subject, ttl, t) ==
    [tok |-> WireToken("signed", tok), how |-> how, s |-> subject, ttl |-> ttl, at |-> t]

CreateAccessToken ==
    \E subject \in Subjects, expires_delta \in Lifetimes :
        LET c == create_access_token(subject, expires_delta, now)
        IN /\ jwt' = IF c.raised THEN jwt
                     ELSE Holding(c.token, "access", subject, expires_delta, now)
           /\ last' = Called("create_access_token", subject, "", "", NoHash, expires_delta,
                             IF c.raised THEN Raise("AttributeError")
                             ELSE Outcome(TokenResult("token", "", c.token, FALSE)))
           /\ UNCHANGED <<hist, now, redis, users, fails, lockout, burst, recorded, procs>>

CreateRefreshToken ==
    \E subject \in Subjects :
        LET c == create_refresh_token(subject, now)
        IN /\ jwt' = IF c.raised THEN jwt
                     ELSE Holding(c.token, "refresh", subject,
                                  REFRESH_TOKEN_EXPIRE_DAYS * 86400, now)
           /\ last' = Called("create_refresh_token", subject, "", "", NoHash, 0,
                             IF c.raised THEN Raise("AttributeError")
                             ELSE Outcome(TokenResult("token", "", c.token, FALSE)))
           /\ UNCHANGED <<hist, now, redis, users, fails, lockout, burst, recorded, procs>>

\* A request arrives with a token from elsewhere
PresentToken ==
    \E w \in PresentedTokens :
        /\ jwt' = [tok |-> w, how |-> "presented", s |-> w.sub, ttl |-> 0, at |-> now]
        /\ last' = Called("present", w.sub, "", "", NoHash, 0, Return("None"))
        /\ UNCHANGED <<hist, now, redis, users, fails, lockout, burst, recorded, procs>>

VerifyToken ==
    /\ jwt.how # "none"
    /\ last' = Called("verify_token", jwt.s, "", "", NoHash, 0, Outcome(verify_token(jwt.tok, now)))
    /\ UNCHANGED <<hist, now, redis, users, fails, lockout, burst, recorded, jwt, procs>>

IsTokenExpired ==
    \E tz \in TzOffsets :
        /\ jwt.how # "none"
        /\ last' = Called("is_token_expired", jwt.s, "", "", NoHash, tz,
                          Outcome(is_token_expired(jwt.tok, now, tz)))
        /\ UNCHANGED <<hist, now, redis, users, fails, lockout, burst, recorded, jwt, procs>>

RefreshAccessToken ==
    /\ jwt.how # "none"
    /\ last' = Called("refresh_access_token", jwt.s, "", "", NoHash, 0,
                      Outcome(refresh_access_token(jwt.tok, now)))
    /\ UNCHANGED <<hist, now, redis, users, fails, lockout, burst, recorded, jwt, procs>>

TickToken == Tick(TokenSteps, MaxTokenTime)

NextToken ==
    \/ TickToken
    \/ CreateAccessToken
    \/ CreateRefreshToken
    \/ PresentToken
    \/ VerifyToken
    \/ IsTokenExpired
    \/ RefreshAccessToken

SpecToken == Init /\ [][NextToken]_vars

\* The payload verify_token gives for the token a call has just returned
VerifiesAs(out, subject) ==
    /\ out.kind = "return"
    /\ out.ret \in {"token", "payload"}
    /\ LET v == verify_token(WireToken("signed", out.tokens.access_token), now)
       IN v.kind = "payload" /\ v.tok.sub = subject

\* C11: create_access_token(s, t) returns a token that verify_token accepts with sub = s
\* at once and at any time before issuance + t, and for which verify_token returns None
\* at any time after issuance + t.
C11_AccessTokenRoundTrip ==
    /\ last.op = "create_access_token" => VerifiesAs(last.out, last.who)
    /\ (last.op = "verify_token" /\ jwt.how = "access")
       => /\ now < jwt.at + jwt.ttl
             => (last.out.ret = "payload" /\ last.out.tokens.access_token.sub = jwt.s)
          /\ now > jwt.at + jwt.ttl => (last.out.kind = "return" /\ last.out.ret = "None")

\* The token in hand is a refresh token that verifies now
ValidRefreshToken == decodes(jwt.tok, now) /\ jwt.tok.type = "refresh"

\* C12: refresh_access_token returns None, and does not raise, for an access token, for
\* a token with a bad signature, an expired or a malformed token, and for any token
\* whose type is not 'refresh'.
C12_RefreshRejectsWithNone ==
    (last.op = "refresh_access_token" /\ ~ValidRefreshToken)
    => (last.out.kind = "return" /\ last.out.ret = "None")

\* C13: create_refresh_token(s) returns a token from which refresh_access_token, called
\* before it expires, makes a token that verify_token accepts with sub = s.
C13_RefreshRoundTrip ==
    /\ last.op = "create_refresh_token"
       => /\ last.out.kind = "return"
          /\ LET r == refresh_access_token(WireToken("signed", last.out.tokens.access_token), now)
             IN r.kind = "token" /\ VerifiesAs(Outcome(r), last.who)
    /\ (last.op = "refresh_access_token" /\ jwt.how = "refresh" /\ ValidRefreshToken)
       => VerifiesAs(last.out, jwt.s)

\* C14: is_token_expired answers True for every token for which verify_token gives no
\* payload, and False for every well-signed token whose expiry lies in the future.
C14_ExpiredAgreesWithVerify ==
    last.op = "is_token_expired"
    => /\ verify_token(jwt.tok, now).kind # "payload"
          => (last.out.kind = "return" /\ last.out.ret = "True")
       /\ (jwt.tok.form = "signed" /\ jwt.tok.exp > now)
          => (last.out.kind = "return" /\ last.out.ret = "False")

---------------------------------------------------------------------------
(* Claims about what a login reveals, under Spec *)

\* The generic authentication failure
GenericFailure(out) ==
    /\ out.exc = "HTTPException"
    /\ out.status = 401
    /\ out.detail = "Incorrect email or password"

\* The latest call was a login for account id with a wrong password
WrongPasswordLogin(id) ==
    /\ last.op = "login"
    /\ last.who = users[id].email
    /\ ~verify_password(last.pw, users[id].password_hash)

\* C15 as stated: every login with a wrong password for an existing account gets the
\* answer a login for an unknown email gets, the generic 401.
C15_WrongPasswordIsGeneric ==
    /\ \A id \in DOMAIN users : WrongPasswordLogin(id) => GenericFailure(last.out)
    /\ (last.op = "login" /\ get_by_email(users, last.who) = {}) => GenericFailure(last.out)

\* C15 amended: every login with a wrong password for an existing account that is not
\* locked when the attempt is made gets the answer a login for an unknown email gets,
\* the generic 401.
C15_WrongPasswordIsGenericUnlessLocked ==
    /\ \A id \in DOMAIN users :
          (WrongPasswordLogin(id) /\ last.before < 5) => GenericFailure(last.out)
    /\ (last.op = "login" /\ get_by_email(users, last.who) = {}) => GenericFailure(last.out)

\* A wrong password has just been tried on an account with failures on record but
\* not locked
C15_Witness ==
    \E id \in DOMAIN users :
        /\ WrongPasswordLogin(id)
        /\ last.before \in 1..4
        /\ GenericFailure(last.out)

---------------------------------------------------------------------------
(* The guarded operations while the store does not answer *)

\* POST /users/login while the store does not answer the lockout check
LoginStoreDown ==
    \E email \in LoginEmails, password \in Passwords :
        LET l == login_store_down(redis, users, now, email, password)
            found == get_by_email(users, email)
            id == IF found = {} THEN NewId(email) ELSE CHOOSE x \in found : TRUE
        IN /\ NextFails(fails[id], l.ev) <= MaxFailures
           /\ redis' = l.r
           /\ users' = l.users
           /\ fails' = [fails EXCEPT ![id] = NextFails(@, l.ev)]
           /\ lockout' = [lockout EXCEPT ![id] = NextLockout(@, l.ev, fails'[id], now)]
           /\ last' = Called("login_store_down", email, password, "", NoHash,
                             Counter(redis, id), l.out)
           /\ UNCHANGED <<hist, now, burst, recorded, jwt, procs>>

ChangePasswordStoreDown ==
    \E id \in UserIds, current \in StrongPasswords, point \in {"rate_limit", "lock_check"} :
        LET c == change_password_store_down(redis, users, now, id, current, point)
            b == IF point = "rate_limit" THEN burst[PasswordChangeKey(id)]
                 ELSE NextBurst(burst[PasswordChangeKey(id)], now, password_change_window)
        IN /\ NextFails(fails[id], c.ev) <= MaxFailures
           /\ b.n <= MaxCalls
           /\ redis' = c.r
           /\ users' = c.users
           /\ fails' = [fails EXCEPT ![id] = NextFails(@, c.ev)]
           /\ lockout' = [lockout EXCEPT ![id] = NextLockout(@, c.ev, fails'[id], now)]
           /\ burst' = [burst EXCEPT ![PasswordChangeKey(id)] = b]
           /\ last' = Called("change_password_store_down", id, current, point, NoHash,
                             Counter(redis, id), c.out)
           /\ UNCHANGED <<hist, now, recorded, jwt, procs>>

InitiatePasswordReset ==
    \E email \in LoginEmails, reset_token \in ResetTokens, up \in BOOLEAN :
        LET c == initiate_password_reset(redis, users, now, email, reset_token, up)
        IN /\ redis' = c.r
           /\ last' = Called("initiate_password_reset", email, "",
                             IF up THEN "up" ELSE "down", NoHash, 0, c.out)
           /\ UNCHANGED <<hist, now, users, fails, lockout, burst, recorded, jwt, procs>>

TickOutage == Tick(OutageSteps, MaxOutageTime)

NextOutage ==
    \/ TickOutage
    \/ LoginStoreDown
    \/ ChangePasswordStoreDown
    \/ InitiatePasswordReset

SpecOutage == InitChange /\ [][NextOutage]_vars

\* C16: when the store does not answer a lockout check or a rate-limit check, the login
\* returns no tokens and leaves the account, its counter and its refresh-token entry as
\* they were; change_password raises and leaves the stored password and the password
\* history as they were; initiate_password_reset raises and stores no reset token.
C16_StoreDownDenies ==
    [][/\ last'.op = "login_store_down"
          => /\ last'.out.kind = "raise"
             /\ last'.out.tokens = NoTokens
             /\ users' = users
             /\ redis' = redis
       /\ last'.op = "change_password_store_down"
          => /\ last'.out.kind = "raise"
             /\ users' = users
             /\ \A id \in UserIds :
                   Entry(redis', PasswordHistoryKey(id)) = Entry(redis, PasswordHistoryKey(id))
       /\ (last'.op = "initiate_password_reset" /\ last'.new = "down"
             /\ get_by_email(users, last'.who) # {})
          => /\ last'.out.kind = "raise"
             /\ \A id \in UserIds :
                   Entry(redis', PasswordResetTokenKey(id)) = Entry(redis, PasswordResetTokenKey(id))]_vars

\* The store has just failed to answer the lockout check of a login with the correct
\* password on a locked account
C16_Witness ==
    \E id \in DOMAIN users :
        /\ last.op = "login_store_down"
        /\ last.who = users[id].email
        /\ verify_password(last.pw, users[id].password_hash)
        /\ last.before >= 5
        /\ last.out.status = 500

---------------------------------------------------------------------------
(* Claims about the login that passes every check, under Spec *)

\* verify_token accepts the token now, with sub = subject
Verifies(tok, subject) ==
    LET v == verify_token(WireToken("signed", tok), now')
    IN v.kind = "payload" /\ v.tok.sub = subject

\* C17: a login with the correct password for an active account that is not locked
\* leaves no failed-login counter, sets the last-login time, returns an access and a
\* refresh token that both verify with sub = the account, and stores the refresh token
\* under refresh_token:{account} with a time to live of REFRESH_TOKEN_EXPIRE_DAYS days.
C17_SuccessfulLogin ==
    [][\A id \in DOMAIN users :
          (CorrectLogin(id) /\ users[id].is_active /\ Counter(redis, id) < 5)
          => /\ ~Exists(redis', FailedLoginKey(id))
             /\ users'[id].last_login_at = now
             /\ last'.out.kind = "return"
             /\ last'.out.ret = "LoginResponse"
             /\ Verifies(last'.out.tokens.access_token, id)
             /\ Verifies(last'.out.tokens.refresh_token, id)
             /\ Entry(redis', RefreshTokenKey(id))
                = <<TRUE, last'.out.tokens.refresh_token,
                    now + REFRESH_TOKEN_EXPIRE_DAYS * 86400>>]_vars

---------------------------------------------------------------------------
(* Logout and the token blacklist (app/api/v1/users.py, app/api/deps.py,
   app/services/auth.py) *)

sadd(r, k, member) ==
    IF Exists(r, k) THEN Put(r, k, r[k].val \cup {member}, r[k].exp)
    ELSE Put(r, k, {member}, NoExpiry)

sismember(r, k, member) == Exists(r, k) /\ member \in r[k].val

\* The key logout writes
LogoutBlacklistKey(user_id) == <<"blacklist:token", user_id>>

\* The key validate_token reads
TokenBlacklistKey == <<"token_blacklist", "">>

logout_blacklist_ttl == 86400

\* The columns of User that the handlers read; current_token is not one of them
UserColumns == {"id", "email", "name", "password_hash", "is_active", "last_login_at"}

\* UserService.__init__(self, session, redis) called with nargs arguments
UserService_binds(nargs) == nargs = 2

\* The dependency every authorized route resolves first; it does not read the blacklist
get_current_user(us, w, t) ==
    LET payload == verify_token(w, t)
    IN IF payload.kind = "raise" THEN [out |-> Raise(payload.exc), id |-> ""]
       ELSE IF payload.kind = "None" \/ payload.tok.sub = ""
       THEN [out |-> HTTPException(401, "Could not validate credentials"), id |-> ""]
       ELSE IF ~UserService_binds(1) THEN [out |-> Raise("TypeError"), id |-> ""]
       ELSE IF payload.tok.sub \notin DOMAIN us
       THEN [out |-> HTTPException(404, "User not found"), id |-> ""]
       ELSE IF ~us[payload.tok.sub].is_active
       THEN [out |-> HTTPException(400, "Inactive user"), id |-> ""]
       ELSE [out |-> Return("User"), id |-> payload.tok.sub]

\* POST /users/logout with token w
logout(r, us, w, t) ==
    LET current_user == get_current_user(us, w, t)
    IN IF current_user.out.kind = "raise" THEN [r |-> r, out |-> current_user.out]
       ELSE IF "current_token" \notin UserColumns
       THEN [r |-> r, out |-> HTTPException(500, "Error during logout")]
       ELSE LET key == LogoutBlacklistKey(current_user.id)
            IN [r |-> expire(sadd(r, key, w), key, logout_blacklist_ttl, t),
                out |-> Return("Successfully logged out")]

\* True: the token is not blacklisted
validate_token(r, w) == ~sismember(r, TokenBlacklistKey, w)

Logout ==
    /\ jwt.how # "none"
    /\ LET l == logout(redis, users, jwt.tok, now)
       IN /\ redis' = l.r
          /\ last' = Called("logout", jwt.s, "", "", NoHash, 0, l.out)
    /\ UNCHANGED <<hist, now, users, fails, lockout, burst, recorded, jwt, procs>>

ValidateToken ==
    /\ jwt.how # "none"
    /\ last' = Called("validate_token", jwt.s, "", "", NoHash, 0,
                      Return(IF validate_token(redis, jwt.tok) THEN "True" ELSE "False"))
    /\ UNCHANGED <<hist, now, redis, users, fails, lockout, burst, recorded, jwt, procs>>

NextRevoke ==
    \/ TickToken
    \/ PresentToken
    \/ Logout
    \/ ValidateToken

SpecRevoke == InitChange /\ [][NextRevoke]_vars

\* C18: once a user has logged out with a token that verifies by signature and expiry,
\* the token is in the blacklist that validate_token reads, so validate_token answers
\* False for it.
C18_LogoutRevokes ==
    (last.op = "logout" /\ decodes(jwt.tok, now) /\ jwt.tok.sub \in DOMAIN users)
    => /\ last.out.kind = "return"
       /\ ~validate_token(redis, jwt.tok)

---------------------------------------------------------------------------
(* record_failed_login, _record_failed_login and clear_failed_logins command by
   command: each store command is one round trip, and requests served by different
   workers interleave between them *)

Idle == [pc |-> "idle", op |-> "", id |-> "", ret |-> 0]

\* A request enters SecurityService.record_failed_login and issues its INCR
RecordIncr(p) ==
    \E id \in UserIds :
        LET a == incr(redis, FailedLoginKey(id))
        IN /\ procs[p].pc = "idle"
           /\ fails[id] < MaxFailures
           /\ redis' = a.r
           /\ procs' = [procs EXCEPT ![p] =
                           IF a.ret = 1
                           THEN [pc |-> "expire", op |-> "record_failed_login", id |-> id,
                                 ret |-> a.ret]
                           ELSE Idle]
           /\ fails' = [fails EXCEPT ![id] = @ + 1]
           /\ lockout' = [lockout EXCEPT ![id] = NextLockout(@, "record", fails'[id], now)]
           /\ last' = Called("record_failed_login.incr", id, "", "", NoHash,
                             Counter(redis, id), Return("None"))
           /\ UNCHANGED <<hist, now, users, burst, recorded, jwt>>

\* A request enters AuthService._record_failed_login and issues its INCR
AuthRecordIncr(p) ==
    \E id \in UserIds :
        LET a == incr(redis, FailedLoginKey(id))
        IN /\ procs[p].pc = "idle"
           /\ fails[id] < MaxFailures
           /\ redis' = a.r
           /\ procs' = [procs EXCEPT ![p] =
                           [pc |-> "expire", op |-> "_record_failed_login", id |-> id,
                            ret |-> a.ret]]
           /\ fails' = [fails EXCEPT ![id] = @ + 1]
           /\ lockout' = [lockout EXCEPT ![id] = NextLockout(@, "record", fails'[id], now)]
           /\ last' = Called("_record_failed_login.incr", id, "", "", NoHash,
                             Counter(redis, id), Return("None"))
           /\ UNCHANGED <<hist, now, users, burst, recorded, jwt>>

\* The request issues its EXPIRE and returns
RecordExpire(p) ==
    /\ procs[p].pc = "expire"
    /\ redis' = expire(redis, FailedLoginKey(procs[p].id), password_attempt_expiry, now)
    /\ procs' = [procs EXCEPT ![p] = Idle]
    /\ last' = Called(procs[p].op \o ".expire", procs[p].id, "", "", NoHash,
                      Counter(redis, procs[p].id), Return("None"))
    /\ UNCHANGED <<hist, now, users, fails, lockout, burst, recorded, jwt>>

\* The store does not answer the EXPIRE: the call raises and the request ends
RecordExpireFails(p) ==
    /\ procs[p].pc = "expire"
    /\ procs' = [procs EXCEPT ![p] = Idle]
    /\ last' = Called(procs[p].op \o ".expire", procs[p].id, "", "", NoHash,
                      Counter(redis, procs[p].id), StoreError)
    /\ UNCHANGED <<hist, now, redis, users, fails, lockout, burst, recorded, jwt>>

\* clear_failed_logins is the single command DEL
ClearDel(p) ==
    \E id \in UserIds :
        /\ procs[p].pc = "idle"
        /\ redis' = clear_failed_logins(redis, id)
        /\ fails' = [fails EXCEPT ![id] = 0]
        /\ lockout' = [lockout EXCEPT ![id] = NoLockout]
        /\ last' = Called("clear_failed_logins.delete", id, "", "", NoHash,
                          Counter(redis, id), Return("None"))
        /\ UNCHANGED <<hist, now, users, burst, recorded, jwt, procs>>

NextSteps ==
    \/ TickLockout
    \/ \E p \in Procs : RecordIncr(p)
    \/ \E p \in Procs : AuthRecordIncr(p)
    \/ \E p \in Procs : RecordExpire(p)
    \/ \E p \in Procs : RecordExpireFails(p)
    \/ \E p \in Procs : ClearDel(p)

SpecSteps == Init /\ [][NextSteps]_vars

\* C19: in every state, between the store commands of a call too, a failed-login
\* counter that exists has a time to live, of at most 3600 seconds.
C19_CounterAlwaysExpires ==
    \A id \in UserIds :
        Exists(redis, FailedLoginKey(id))
        => /\ redis[FailedLoginKey(id)].exp # NoExpiry
           /\ redis[FailedLoginKey(id)].exp - now <= password_attempt_expiry

---------------------------------------------------------------------------
(* Claims about the lockout window, under Spec *)

\* C20: the failure that takes the counter to 1 sets its expiry to 3600 seconds from
\* then, and a later failure, recorded on the login path or by SecurityService, leaves
\* that expiry as it is.
C20_WindowAnchoredAtFirstFailure ==
    [][\A id \in UserIds :
          fails'[id] = fails[id] + 1
          => IF fails[id] = 0
             THEN redis'[FailedLoginKey(id)].exp = now + 3600
             ELSE redis'[FailedLoginKey(id)].exp = redis[FailedLoginKey(id)].exp]_vars

---------------------------------------------------------------------------
(* Claims about what record_failed_login answers, under Spec *)

\* C21: record_failed_login answers True on the call that takes the counter from 4 to
\* 5 and on no other call: False while the counter stays below 5, and False again on
\* the calls that find the account already over the threshold.
C21_TrueOnlyOnCrossing ==
    last.op = "record_failed_login"
    => (last.out.ret = "True" <=> last.before = max_login_attempts - 1)

---------------------------------------------------------------------------
(* Claims about concurrent failure recordings, under SpecSteps *)

\* C22: however the store commands of concurrent failure recordings for one account
\* interleave, every recording counts: the counter equals the number of recordings
\* made since it was last cleared or expired.
C22_NoFailureLost ==
    \A id \in UserIds : Counter(redis, id) = fails[id]

\* Two recordings for the same account are in flight, both past their INCR, and a
\* recording had been counted before them
C22_Witness ==
    /\ \A p \in Procs : procs[p].pc = "expire" /\ procs[p].id = "u1"
    /\ \E p \in Procs : procs[p].op = "_record_failed_login"
    /\ Counter(redis, "u1") = 3

---------------------------------------------------------------------------
(* authenticate_user command by command, for an account that exists: the lock check
   (GET), the password check, and then either the recording of the failure (INCR,
   EXPIRE) or the rest of the try block *)

\* A login request for the account has found the user and issues the GET of the lock
\* check; a locked account ends the request
LoginCheckLocked(p) ==
    \E id \in DOMAIN users, password \in StrongPasswords :
        LET locked == _is_account_locked(redis, id)
        IN /\ procs[p].pc = "idle"
           /\ procs' = [procs EXCEPT ![p] =
                           IF locked THEN Idle
                           ELSE [pc |-> "verify", op |-> "authenticate_user", id |-> id,
                                 ret |-> 0, pw |-> password]]
           /\ last' = Called("authenticate_user.get", id, password, "", NoHash,
                             Counter(redis, id),
                             IF locked
                             THEN except_Exception(HTTPException(403,
                                      "Account is locked due to too many failed attempts"))
                             ELSE Return("None"))
           /\ UNCHANGED <<now, redis, users, fails, lockout, burst, recorded, jwt, hist>>

\* The request verifies the password.  A wrong one sends it on to record the failure;
\* with the right one it runs the rest of the try block, which clears the counter
LoginVerify(p) ==
    LET id == procs[p].id
        password == procs[p].pw
    IN /\ procs[p].pc = "verify"
       /\ IF ~verify_password(password, users[id].password_hash)
          THEN /\ procs' = [procs EXCEPT ![p] =
                               [pc |-> "record", op |-> "_record_failed_login", id |-> id,
                                ret |-> 0]]
               /\ hist' = [hist EXCEPT !.verified[id] = @ + 1]
               /\ last' = Called("authenticate_user.verify_password", id, password, "",
                                 NoHash, Counter(redis, id), Return("None"))
               /\ UNCHANGED <<redis, users, fails, lockout>>
          ELSE LET a == authenticate_user_checked(redis, users, now, id, password)
               IN /\ procs' = [procs EXCEPT ![p] = Idle]
                  /\ redis' = a.r
                  /\ users' = a.users
                  /\ fails' = [fails EXCEPT ![id] = NextFails(@, a.ev)]
                  /\ lockout' = [lockout EXCEPT ![id] = NextLockout(@, a.ev, fails'[id], now)]
                  /\ hist' = [hist EXCEPT !.verified[id] = IF a.ev = "clear" THEN 0 ELSE @]
                  /\ last' = Called("authenticate_user.verify_password", id, password, "",
                                    NoHash, Counter(redis, id), except_Exception(a.out))
       /\ UNCHANGED <<now, burst, recorded, jwt>>

\* The request issues the INCR of _record_failed_login
LoginRecordIncr(p) ==
    LET id == procs[p].id
        a == incr(redis, FailedLoginKey(id))
    IN /\ procs[p].pc = "record"
       /\ redis' = a.r
       /\ procs' = [procs EXCEPT ![p] =
                       [pc |-> "expire", op |-> "_record_failed_login", id |-> id,
                        ret |-> a.ret]]
       /\ fails' = [fails EXCEPT ![id] = @ + 1]
       /\ lockout' = [lockout EXCEPT ![id] = NextLockout(@, "record", fails'[id], now)]
       /\ last' = Called("_record_failed_login.incr", id, "", "", NoHash,
                         Counter(redis, id), Return("None"))
       /\ UNCHANGED <<now, users, burst, recorded, jwt, hist>>

NextGuess ==
    \/ TickLockout
    \/ \E p \in Procs : LoginCheckLocked(p)
    \/ \E p \in Procs : LoginVerify(p)
    \/ \E p \in Procs : LoginRecordIncr(p)
    \/ \E p \in Procs : RecordExpire(p)

SpecGuess == InitChange /\ [][NextGuess]_vars

\* C23: between two resets of an account's counter at most 5 wrong passwords are
\* verified for it, and no password is verified for it while its counter stands at 5
\* or more, however the commands of concurrent login requests interleave.
C23_AtMostFiveGuesses ==
    \A id \in UserIds :
        /\ hist.verified[id] <= max_login_attempts
        /\ (last.op = "authenticate_user.verify_password" /\ last.who = id)
           => last.before < max_login_attempts

---------------------------------------------------------------------------
(* Claims about the entries of the rate limiter, under SpecRate *)

\* C25: every call of enforce_rate_limit adds one entry of its own under the key,
\* permitted or not and whatever timestamp it carries: after j calls on a key that all
\* fall inside one window, the key holds j entries inside the window.
C25_EveryCallRecorded ==
    \A k \in DOMAIN RateParams :
        LET p == RateParams[k]
            b == burst[CallerKey(k)]
        IN (last.op = "enforce_rate_limit" /\ last.who = k
              /\ b.lastt - b.first < p.window_seconds)
           => zcount(redis, CallerKey(k), now - p.window_seconds) = b.n

---------------------------------------------------------------------------
(* enforce_rate_limit command by command: ZADD, ZREMRANGEBYSCORE, ZCOUNT, EXPIRE *)

\* The key the concurrent callers share
SharedKeys == {"k1"}

\* A call reads the clock and issues its ZADD
RateZadd(p) ==
    \E k \in SharedKeys :
        /\ procs[p].pc = "idle"
        /\ Len(hist.permits[CallerKey(k)]) < MaxPermits
        /\ redis' = zadd(redis, CallerKey(k), now, now)
        /\ procs' = [procs EXCEPT ![p] =
                        [pc |-> "zremrangebyscore", op |-> "enforce_rate_limit", id |-> k,
                         ret |-> 0, t |-> now]]
        /\ last' = Called("enforce_rate_limit.zadd", k, "", "", NoHash, 0, Return("None"))
        /\ UNCHANGED <<now, users, fails, lockout, burst, recorded, jwt, hist>>

\* The call drops the entries that have left its window
RateZremrangebyscore(p) ==
    LET k == procs[p].id
        window_start == procs[p].t - RateParams[k].window_seconds
    IN /\ procs[p].pc = "zremrangebyscore"
       /\ redis' = zremrangebyscore(redis, CallerKey(k), 0, window_start)
       /\ procs' = [procs EXCEPT ![p].pc = "zcount"]
       /\ last' = Called("enforce_rate_limit.zremrangebyscore", k, "", "", NoHash, 0,
                         Return("None"))
       /\ UNCHANGED <<now, users, fails, lockout, burst, recorded, jwt, hist>>

\* The call counts the entries in its window
RateZcount(p) ==
    LET k == procs[p].id
        window_start == procs[p].t - RateParams[k].window_seconds
    IN /\ procs[p].pc = "zcount"
       /\ procs' = [procs EXCEPT ![p].pc = "expire",
                                 ![p].ret = zcount(redis, CallerKey(k), window_start)]
       /\ last' = Called("enforce_rate_limit.zcount", k, "", "", NoHash, 0, Return("None"))
       /\ UNCHANGED <<now, redis, users, fails, lockout, burst, recorded, jwt, hist>>

\* The call sets the expiry of the key and returns
RateExpire(p) ==
    LET k == procs[p].id
        permitted == procs[p].ret <= RateParams[k].max_requests
    IN /\ procs[p].pc = "expire"
       /\ procs[p].op = "enforce_rate_limit"
       /\ redis' = expire(redis, CallerKey(k), RateParams[k].window_seconds, now)
       /\ procs' = [procs EXCEPT ![p] = Idle]
       /\ hist' = IF permitted
                  THEN [hist EXCEPT !.permits[CallerKey(k)] = Append(@, procs[p].t)]
                  ELSE hist
       /\ last' = Called("enforce_rate_limit.expire", k, "", "", NoHash, 0,
                         Return(IF permitted THEN "True" ELSE "False"))
       /\ UNCHANGED <<now, users, fails, lockout, burst, recorded, jwt>>

NextRateSteps ==
    \/ TickWindow
    \/ \E p \in Procs : RateZadd(p)
    \/ \E p \in Procs : RateZremrangebyscore(p)
    \/ \E p \in Procs : RateZcount(p)
    \/ \E p \in Procs : RateExpire(p)

SpecRateSteps == Init /\ [][NextRateSteps]_vars

\* C24: of the calls on one key whose timestamps lie within any w seconds, at most m
\* are let through, however the commands of concurrent calls interleave.
C24_AtMostLimitPerInterval ==
    \A k \in SharedKeys :
        LET permits == hist.permits[CallerKey(k)]
            p == RateParams[k]
        IN \A i \in 1..Len(permits) :
              Cardinality({j \in 1..Len(permits) :
                              /\ permits[j] > permits[i] - p.window_seconds
                              /\ permits[j] <= permits[i]}) <= p.max_requests

---------------------------------------------------------------------------
(* Claims about abandoned rate-limit keys, under SpecRateLive: the rate limiter
   called on its own, with a clock that keeps advancing up to its horizon *)

\* Time passes whatever the callers do
SpecRateLive == Init /\ [][NextRate]_vars /\ WF_vars(TickWindow)

\* The timestamps the clock of SpecRate takes
WindowTimes == {t \in 0..MaxWindowTime : \E d \in WindowSteps : t % d = 0}

\* After its last call at t the key is there and no later call has been made on it
AbandonedSince(k, t) ==
    Exists(redis, CallerKey(k)) /\ burst[CallerKey(k)].lastt = t

\* What holds of a key in every state: a call leaves it with an expiry of w seconds
\* from then; it is gone once w seconds have passed since the last call; and while it
\* is there it outlives every entry's stay in the window
ExpiryFollowsLastCall ==
    \A k \in DOMAIN RateParams :
        LET key == CallerKey(k)
            w == RateParams[k].window_seconds
        IN /\ (last.op = "enforce_rate_limit" /\ last.who = k)
              => Exists(redis, key) /\ redis[key].exp = now + w
           /\ Exists(redis, key)
              => /\ burst[key].n > 0
                 /\ now < burst[key].lastt + w
                 /\ \A e \in redis[key].val : e.score + w <= redis[key].exp

---------------------------------------------------------------------------
(* add_to_password_history command by command: LPUSH, LTRIM, EXPIRE *)

\* A call issues its LPUSH; alone: no other call has been in flight since it began
HistoryLpush(p) ==
    \E id \in UserIds : \E h \in Usable(recorded[id]) :
        /\ procs[p].pc = "idle"
        /\ Len(recorded[id]) < MaxRecorded
        /\ redis' = lpush(redis, PasswordHistoryKey(id), h)
        /\ recorded' = [recorded EXCEPT ![id] = Append(@, h)]
        /\ procs' = [q \in Procs |->
                        IF q = p
                        THEN [pc |-> "ltrim", op |-> "add_to_password_history", id |-> id,
                              ret |-> 0, h |-> h,
                              alone |-> \A o \in Procs \ {p} : procs[o].pc = "idle"]
                        ELSE IF procs[q].pc = "idle" THEN procs[q]
                        ELSE [procs[q] EXCEPT !.alone = FALSE]]
        /\ last' = Called("add_to_password_history.lpush", id, "", "", h, 0, Return("None"))
        /\ UNCHANGED <<now, users, fails, lockout, burst, jwt, hist>>

\* The call trims the list to its first five entries
HistoryLtrim(p) ==
    /\ procs[p].pc = "ltrim"
    /\ redis' = ltrim(redis, PasswordHistoryKey(procs[p].id), history_depth)
    /\ procs' = [procs EXCEPT ![p].pc = "expire"]
    /\ last' = Called("add_to_password_history.ltrim", procs[p].id, "", "", procs[p].h, 0,
                      Return("None"))
    /\ UNCHANGED <<now, users, fails, lockout, burst, recorded, jwt, hist>>

\* The call sets the expiry of the list and returns
HistoryExpire(p) ==
    /\ procs[p].pc = "expire"
    /\ procs[p].op = "add_to_password_history"
    /\ redis' = expire(redis, PasswordHistoryKey(procs[p].id), history_expiry, now)
    /\ procs' = [procs EXCEPT ![p] = Idle]
    /\ last' = Called("add_to_password_history.expire", procs[p].id, "", "", procs[p].h, 0,
                      Return("None"))
    /\ UNCHANGED <<now, users, fails, lockout, burst, recorded, jwt, hist>>

NextHistorySteps ==
    \/ TickDays
    \/ \E p \in Procs : HistoryLpush(p)
    \/ \E p \in Procs : HistoryLtrim(p)
    \/ \E p \in Procs : HistoryExpire(p)

SpecHistorySteps == Init /\ [][NextHistorySteps]_vars

\* The sequence in reverse order
Reverse(seq) == [i \in 1..Len(seq) |-> seq[Len(seq) + 1 - i]]

\* C27: when a call of add_to_password_history completes, whatever other calls for
\* the account are in flight, the list of the account holds at most 5 entries, they
\* are the hashes recorded last, the latest first, with the hash of the call at the
\* front when no other call ran beside it, and the list expires 180 days from then.
C27_HistoryAfterRecord ==
    [][\A p \in Procs :
          (procs[p].pc = "expire" /\ procs[p].op = "add_to_password_history"
             /\ procs'[p].pc = "idle")
          => LET key == PasswordHistoryKey(procs[p].id)
             IN /\ Exists(redis', key)
                /\ Len(redis'[key].val) <= 5
                /\ redis'[key].val
                      = Reverse(Latest(recorded'[procs[p].id], Len(redis'[key].val)))
                /\ procs[p].alone => redis'[key].val[1] = procs[p].h
                /\ redis'[key].exp = now + history_expiry]_vars

---------------------------------------------------------------------------
(* Claims about the order of check, update and record in change_password, under
   SpecReuse: change_password on an account that create_user has created *)

NextReuse ==
    \/ TickOutage
    \/ ChangePassword

SpecReuse == InitChange /\ [][NextReuse]_vars

\* C28: the reuse check of a change_password call reads the history as it was before
\* the call, never one to which the call has already added the new hash; the call
\* records the new hash only when that check has passed and the password has been
\* updated.
C28_CheckBeforeRecord ==
    [][\A id \in UserIds :
          (last'.op = "change_password" /\ last'.who = id)
          => /\ hist'.seen.reached
                => hist'.seen.history = lrange(redis, PasswordHistoryKey(id), history_depth)
             /\ Entry(redis', PasswordHistoryKey(id)) # Entry(redis, PasswordHistoryKey(id))
                => /\ hist'.seen.reached
                   /\ last'.out = Return("None")
                   /\ users'[id].password_hash # users[id].password_hash]_vars

\* A change_password call has got as far as the reuse check, on an account with a
\* recorded password
C28_Witness ==
    /\ last.op = "change_password"
    /\ hist.seen.reached
    /\ Len(hist.seen.history) >= 1
    /\ last.out # HTTPException(400, "Password has been used recently")

---------------------------------------------------------------------------
(* Claims about the hash on record and the hash in use, under SpecAccount: accounts
   are created and their passwords changed, within one tick of the clock *)

NextAccount ==
    \/ CreateUser
    \/ ChangePassword

SpecAccount == Init /\ [][NextAccount]_vars

\* The entry at the front of the account's password history, NoHash when there is none
Front(r, id) ==
    IF Exists(r, PasswordHistoryKey(id)) THEN r[PasswordHistoryKey(id)].val[1] ELSE NoHash

\* C29: a create_user call that creates the account, and a change_password call that
\* passes every check, end in success with the hash of the password just set stored
\* for the account and the same hash at the front of the account's password history.
C29_RecordedHashIsInUse ==
    [][/\ (last'.op = "create_user" /\ last'.out = Return("UserResponse"))
          => \A id \in DOMAIN users' \ DOMAIN users :
                /\ verify_password(last'.pw, users'[id].password_hash)
                /\ Front(redis', id) = users'[id].password_hash
       /\ \A id \in UserIds :
             (/\ last'.op = "change_password" /\ last'.who = id
              /\ hist'.seen.reached
              /\ last'.out # HTTPException(400, "Password has been used recently"))
             => /\ last'.out = Return("None")
                /\ verify_password(last'.new, users'[id].password_hash)
                /\ Front(redis', id) = users'[id].password_hash]_vars

---------------------------------------------------------------------------
(* Claims about password reset requests, under SpecReset: requests for the email of
   an account and for an email no account has, as time passes *)

NextReset ==
    \/ TickWindow
    \/ InitiatePasswordReset

SpecReset == InitChange /\ [][NextReset]_vars

\* C30: whatever requests came before, a reset request ends the same way for an email
\* that has an account as for one that has none, once the limit of 3 requests in 3600
\* seconds is reached too.
C30_NoEmailEnumeration ==
    \A email \in LoginEmails, other \in LoginEmails, reset_token \in ResetTokens :
        initiate_password_reset(redis, users, now, email, reset_token, TRUE).out
            = initiate_password_reset(redis, users, now, other, reset_token, TRUE).out

====
